---- MODULE Spec2Model ----
(***************************************************************************)
(* A model of the mini_ai chatbot: the rule-based engine (engine.py:       *)
(* build_from_yaml, MiniAI.__init__, _extract_name, predict_intent,        *)
(* _apply_dynamic, render_response, respond) and the /chat handler of      *)
(* server.py with its in-memory session store.                             *)
(*                                                                         *)
(* Text is a TLA+ string; Ch(s, i) is its i-th character.  A mapping       *)
(* (a Python dict with string keys) is a function whose DOMAIN is the set  *)
(* of keys.  An ordered dict (the intent catalog, the compiled patterns)   *)
(* is a sequence of records in iteration order.                            *)
(***************************************************************************)
EXTENDS Integers, Sequences, FiniteSets, TLC

VARIABLES intents, default_response, compiled, SESSIONS, requests, input, last

vars == <<intents, default_response, compiled, SESSIONS, requests, input, last>>

(***************************************************************************)
(* Characters and the str methods the code uses.                           *)
(***************************************************************************)
Ch(s, i) == SubSeq(s, i, i)

UpperLetters == "ABCDEFGHIJKLMNOPQRSTUVWXYZ"
LowerLetters == "abcdefghijklmnopqrstuvwxyz"
Digits == "0123456789"

IndexIn(alphabet, c) ==
    IF \E i \in 1..Len(alphabet) : Ch(alphabet, i) = c
    THEN CHOOSE i \in 1..Len(alphabet) : Ch(alphabet, i) = c
    ELSE 0

UpperSet == {Ch(UpperLetters, i) : i \in 1..Len(UpperLetters)}
LowerSet == {Ch(LowerLetters, i) : i \in 1..Len(LowerLetters)}
DigitSet == {Ch(Digits, i) : i \in 1..Len(Digits)}
LowerOf == [c \in UpperSet |-> Ch(LowerLetters, IndexIn(UpperLetters, c))]
UpperOf == [c \in LowerSet |-> Ch(UpperLetters, IndexIn(LowerLetters, c))]

IsUpper(c) == c \in UpperSet
IsLower(c) == c \in LowerSet
IsLetter(c) == IsUpper(c) \/ IsLower(c)
IsDigit(c) == c \in DigitSet
\* \w of the re module, on the ASCII characters of the model
IsWordChar(c) == IsLetter(c) \/ IsDigit(c) \/ c = "_"
\* \s of the re module on str and the characters str.strip() removes, on the ASCII
\* characters: space, \t, \n, \r, \f, the vertical tab 0x0b and the separators
\* 0x1c to 0x1f (the last five stand in the strings as the characters themselves)
IsSpace(c) == c \in {" ", "\t", "\n", "\r", "\f", "", "", "", "", ""}

\* str.lower() and str.upper() on one character
LowerCh(c) == IF IsUpper(c) THEN LowerOf[c] ELSE c
UpperCh(c) == IF IsLower(c) THEN UpperOf[c] ELSE c

RECURSIVE LowerStr(_)
LowerStr(s) == IF s = "" THEN "" ELSE LowerCh(Ch(s, 1)) \o LowerStr(SubSeq(s, 2, Len(s)))

\* str.capitalize(): first character upper-cased, the rest lower-cased
Capitalize(s) == IF s = "" THEN "" ELSE UpperCh(Ch(s, 1)) \o LowerStr(SubSeq(s, 2, Len(s)))

RECURSIVE LStrip(_)
LStrip(s) == IF s # "" /\ IsSpace(Ch(s, 1)) THEN LStrip(SubSeq(s, 2, Len(s))) ELSE s

RECURSIVE RStrip(_)
RStrip(s) == IF s # "" /\ IsSpace(Ch(s, Len(s))) THEN RStrip(SubSeq(s, 1, Len(s) - 1)) ELSE s

\* str.strip()
Strip(s) == RStrip(LStrip(s))

\* str.lstrip("0")
RECURSIVE LStripZero(_)
LStripZero(s) == IF s # "" /\ Ch(s, 1) = "0" THEN LStripZero(SubSeq(s, 2, Len(s))) ELSE s

(***************************************************************************)
(* Mappings (dict).                                                        *)
(***************************************************************************)
EmptyMap == [k \in {} |-> ""]

\* d[key] = value on a copy
DictSet(d, key, value) == [k \in DOMAIN d \cup {key} |-> IF k = key THEN value ELSE d[k]]

\* {**a, **b}: the keys of both, b's value on a collision
DictMerge(a, b) == [k \in DOMAIN a \cup DOMAIN b |-> IF k \in DOMAIN b THEN b[k] ELSE a[k]]

\* Optional[str]: None is a value that is no string of the model
None == "<None>"

(***************************************************************************)
(* The re module, on the pattern dialect of the model: a pattern is a      *)
(* string of literal characters in which the two characters \b assert a    *)
(* word boundary.  A compiled pattern keeps its source and its flags.      *)
(***************************************************************************)
\* \b at the gap before t[i]: exactly one of t[i-1], t[i] is a word character
WordBoundary(t, i) ==
    LET before == i > 1 /\ IsWordChar(Ch(t, i - 1))
        after  == i <= Len(t) /\ IsWordChar(Ch(t, i))
    IN  before # after

CharEq(a, b, ignorecase) == IF ignorecase THEN LowerCh(a) = LowerCh(b) ELSE a = b

\* the literal lit matches t at position i
LitAt(lit, t, i, ignorecase) ==
    /\ i + Len(lit) - 1 <= Len(t)
    /\ \A k \in 1..Len(lit) : CharEq(Ch(lit, k), Ch(t, i + k - 1), ignorecase)

\* re.compile(p, re.IGNORECASE)
ReCompile(p) == [src |-> p, ignorecase |-> TRUE]

RECURSIVE MatchAt(_, _, _, _)
\* the pattern from its k-th character on matches t from position i on
MatchAt(cp, k, t, i) ==
    IF k > Len(cp.src) THEN TRUE
    ELSE IF Ch(cp.src, k) = "\\" /\ k < Len(cp.src) /\ Ch(cp.src, k + 1) = "b"
         THEN WordBoundary(t, i) /\ MatchAt(cp, k + 2, t, i)
         ELSE /\ i <= Len(t)
              /\ CharEq(Ch(cp.src, k), Ch(t, i), cp.ignorecase)
              /\ MatchAt(cp, k + 1, t, i + 1)

\* p.search(text) is not None
PatternSearch(cp, t) == \E i \in 1..(Len(t) + 1) : MatchAt(cp, 1, t, i)

(***************************************************************************)
(* engine.py: MiniAI._extract_name.  A name pattern is                     *)
(*   \b(?:alt_1|...|alt_n)\s+([A-Z][a-z]+)\b                               *)
(* searched with re.IGNORECASE, where each alternative is a sequence of    *)
(* literals joined by \s+ ("my\s+name\s+is").                              *)
(***************************************************************************)
name_patterns ==
    << [alts |-> << <<"i am">>, <<"i'm">>, <<"im">> >>],
       [alts |-> << <<"my", "name", "is">> >>] >>

RECURSIVE SpaceRunEnd(_, _)
\* \s+ is greedy: the first position from i on that holds no whitespace
SpaceRunEnd(t, i) == IF i <= Len(t) /\ IsSpace(Ch(t, i)) THEN SpaceRunEnd(t, i + 1) ELSE i

RECURSIVE LetterRunEnd(_, _)
\* [a-z]+ under IGNORECASE is greedy: the first position from i on that holds no letter
LetterRunEnd(t, i) == IF i <= Len(t) /\ IsLetter(Ch(t, i)) THEN LetterRunEnd(t, i + 1) ELSE i

RECURSIVE WordsAt(_, _, _, _)
\* words[k] \s+ words[k+1] \s+ ... \s+ matched at i: the position after the last
\* \s+, or 0.  Every literal starts with a letter, so of all the lengths \s+ may
\* take only the whole run of whitespace lets the match go on.
WordsAt(words, k, t, i) ==
    IF k > Len(words) THEN i
    ELSE IF ~LitAt(words[k], t, i, TRUE) THEN 0
    ELSE LET j == i + Len(words[k])
             e == SpaceRunEnd(t, j)
         IN  IF e = j THEN 0 ELSE WordsAt(words, k + 1, t, e)

\* ([A-Z][a-z]+)\b at j: the captured group, or None.  The group needs two letters
\* at least; \b after a letter needs a non-word character or the end, which a
\* shorter run of letters (backtracking) never has.
CaptureAt(t, j) ==
    LET e == LetterRunEnd(t, j)
    IN  IF j >= 1 /\ e - j >= 2 /\ WordBoundary(t, e) THEN SubSeq(t, j, e - 1) ELSE None

RECURSIVE AltsAt(_, _, _, _)
\* (?:alt_a|alt_a+1|...) then the group: the alternatives are tried in order
AltsAt(alts, a, t, i) ==
    IF a > Len(alts) THEN None
    ELSE LET j == WordsAt(alts[a], 1, t, i)
             g == IF j = 0 THEN None ELSE CaptureAt(t, j)
         IN  IF g # None THEN g ELSE AltsAt(alts, a + 1, t, i)

\* the pattern matched at position i: group(1), or None
NameMatchAt(pat, t, i) == IF WordBoundary(t, i) THEN AltsAt(pat.alts, 1, t, i) ELSE None

RECURSIVE NameSearchFrom(_, _, _)
\* re.search: the leftmost position at which the pattern matches
NameSearchFrom(pat, t, i) ==
    IF i > Len(t) + 1 THEN None
    ELSE LET g == NameMatchAt(pat, t, i)
         IN  IF g # None THEN g ELSE NameSearchFrom(pat, t, i + 1)

\* re.search(pat, text, flags=re.IGNORECASE): m.group(1), or None for no match
NameSearch(pat, t) == NameSearchFrom(pat, t, 1)

RECURSIVE ExtractNameFrom(_, _)
ExtractNameFrom(text, p) ==
    IF p > Len(name_patterns) THEN None
    ELSE LET g == NameSearch(name_patterns[p], text)
         IN  IF g # None THEN Capitalize(Strip(g)) ELSE ExtractNameFrom(text, p + 1)

\* a variant of _extract_name that tries the name patterns in the reverse order
ExtractNameLastPatternFirst(text) ==
    IF NameSearch(name_patterns[2], text) # None
    THEN Capitalize(Strip(NameSearch(name_patterns[2], text)))
    ELSE IF NameSearch(name_patterns[1], text) # None
    THEN Capitalize(Strip(NameSearch(name_patterns[1], text)))
    ELSE None

\* MiniAI._extract_name(text)
ExtractName(text) == ExtractNameFrom(text, 1)

(***************************************************************************)
(* engine.py: build_from_yaml and MiniAI.__init__.  raw is the parsed      *)
(* document: [intents |-> sequence of items, default_response |-> string]. *)
(* An item without a name has name "".                                     *)
(***************************************************************************)
Intent(name, patterns, responses) ==
    [name |-> name, patterns |-> patterns, responses |-> responses]

\* position of the key in an ordered dict, 0 when absent
KeyIndex(od, name) ==
    IF \E i \in 1..Len(od) : od[i].name = name
    THEN CHOOSE i \in 1..Len(od) : od[i].name = name
    ELSE 0

\* intents_map[name] = value: a new key goes last, a known key keeps its place
OrderedSet(od, value) ==
    IF KeyIndex(od, value.name) = 0 THEN Append(od, value)
    ELSE [od EXCEPT ![KeyIndex(od, value.name)] = value]

RECURSIVE IntentsMap(_, _)
\* the loop of build_from_yaml over raw["intents"][i..]
IntentsMap(items, i) ==
    IF i = 0 THEN <<>>
    ELSE LET before == IntentsMap(items, i - 1)
             item == items[i]
         IN  IF item.name = "" THEN before
             ELSE OrderedSet(before, Intent(item.name, item.patterns, item.responses))

\* self._compiled: per intent, in the catalog's order, its compiled patterns
CompileAll(catalog) ==
    [i \in 1..Len(catalog) |->
        [name |-> catalog[i].name,
         patterns |-> [p \in 1..Len(catalog[i].patterns) |-> ReCompile(catalog[i].patterns[p])]]]

\* build_from_yaml(path) with yaml.safe_load(f) = raw: the engine's three fields
BuildFromYaml(raw) ==
    LET catalog == IntentsMap(raw.intents, Len(raw.intents))
    IN  [intents |-> catalog,
         default_response |-> raw.default_response,
         compiled |-> CompileAll(catalog)]

(***************************************************************************)
(* engine.py: MiniAI.predict_intent.                                       *)
(***************************************************************************)
\* any(p.search(text) for p in patterns)
AnyPatternMatches(patterns, text) ==
    \E p \in 1..Len(patterns) : PatternSearch(patterns[p], text)

RECURSIVE LastMatch(_, _, _)
\* a variant of the loop without its break: the last intent that matches wins
LastMatch(comp, text, i) ==
    IF i > Len(comp) THEN None
    ELSE LET later == LastMatch(comp, text, i + 1)
         IN  IF later # None THEN later
             ELSE IF AnyPatternMatches(comp[i].patterns, text) THEN comp[i].name
             ELSE None

RECURSIVE FirstMatch(_, _, _)
\* the for loop over self._compiled.items() from its i-th entry on, with its break
FirstMatch(comp, text, i) ==
    IF i > Len(comp) THEN None
    ELSE IF AnyPatternMatches(comp[i].patterns, text) THEN comp[i].name
    ELSE FirstMatch(comp, text, i + 1)

\* a variant of predict_intent that leaves best_intent None when nothing matched
BestIntentNoFallback(comp, text) == FirstMatch(comp, text, 1)

\* best_intent after the loop and the fallback
BestIntent(comp, text) ==
    LET best == FirstMatch(comp, text, 1)
    IN  IF best = None THEN "fallback" ELSE best

\* the entities of predict_intent: "name" only for a name that is truthy
ExtractEntities(text) ==
    LET name == ExtractName(text)
    IN  IF name # None /\ name # "" THEN DictSet(EmptyMap, "name", name) ELSE EmptyMap

\* predict_intent(text) -> (best_intent, entities)
PredictIntent(comp, text) ==
    LET stripped == Strip(text)
    IN  [intent_name |-> BestIntent(comp, stripped), entities |-> ExtractEntities(stripped)]

(***************************************************************************)
(* str.format_map on a _SafeDict: "{{" and "}}" are literal braces, a      *)
(* field is the text between "{" and the next "}", and a key that is       *)
(* missing yields "" (__missing__).  A malformed template raises           *)
(* ValueError: a single "{" or "}", a "{" inside a field, an empty or      *)
(* all-digit (positional) field.  Field names of the model are plain keys  *)
(* (no ".", "[", "!" or ":").                                              *)
(***************************************************************************)
Raised == [raised |-> TRUE, out |-> ""]
Returned(s) == [raised |-> FALSE, out |-> s]

\* _SafeDict(d)[key]
SafeGet(d, key) == IF key \in DOMAIN d THEN d[key] ELSE ""

RECURSIVE FieldEnd(_, _)
\* the position of the "}" closing the field that starts at i, or 0 when a "{"
\* or the end of the string comes first
FieldEnd(t, i) ==
    IF i > Len(t) THEN 0
    ELSE IF Ch(t, i) = "}" THEN i
    ELSE IF Ch(t, i) = "{" THEN 0
    ELSE FieldEnd(t, i + 1)

AllDigits(s) == \A k \in 1..Len(s) : IsDigit(Ch(s, k))

RECURSIVE FormatFrom(_, _, _, _)
\* the scan of the template from position i on, with acc the text rendered so far
FormatFrom(t, i, d, acc) ==
    IF i > Len(t) THEN Returned(acc)
    ELSE IF Ch(t, i) = "{" THEN
        IF i < Len(t) /\ Ch(t, i + 1) = "{" THEN FormatFrom(t, i + 2, d, acc \o "{")
        ELSE LET e == FieldEnd(t, i + 1)
             IN  IF e = 0 \/ AllDigits(SubSeq(t, i + 1, e - 1)) THEN Raised
                 ELSE FormatFrom(t, e + 1, d, acc \o SafeGet(d, SubSeq(t, i + 1, e - 1)))
    ELSE IF Ch(t, i) = "}" THEN
        IF i < Len(t) /\ Ch(t, i + 1) = "}" THEN FormatFrom(t, i + 2, d, acc \o "}")
        ELSE Raised
    ELSE FormatFrom(t, i + 1, d, acc \o Ch(t, i))

\* template.format_map(_SafeDict(d))
FormatMap(template, d) == FormatFrom(template, 1, d, "")

(***************************************************************************)
(* engine.py: MiniAI._apply_dynamic and MiniAI.render_response.  now is    *)
(* datetime.now() as <<hour, minute>>.                                     *)
(***************************************************************************)
TwoDigits(n) == Ch(Digits, (n \div 10) + 1) \o Ch(Digits, (n % 10) + 1)

\* datetime.strftime("%I:%M %p"): zero-padded 12-hour clock hour, minute, AM or PM
Strftime(now) ==
    LET h == now[1]
        h12 == IF h % 12 = 0 THEN 12 ELSE h % 12
    IN  TwoDigits(h12) \o ":" \o TwoDigits(now[2]) \o " " \o (IF h < 12 THEN "AM" ELSE "PM")

\* a variant of the "time" entity that keeps strftime's leading zero
TimeStringPadded(now) == Strftime(now)

\* the "time" entity: strftime(...).lstrip("0")
TimeString(now) == LStripZero(Strftime(now))

\* a variant of _apply_dynamic that writes "time" into the caller's mapping
ApplyDynamicInPlace(intent_name, entities, now) ==
    IF intent_name = "time"
    THEN [out |-> DictSet(entities, "time", LStripZero(Strftime(now))),
          entities |-> DictSet(entities, "time", LStripZero(Strftime(now)))]
    ELSE [out |-> entities, entities |-> entities]

\* _apply_dynamic(intent_name, entities): the mapping returned (out) and the
\* caller's mapping as the call leaves it (entities): "time" goes into a copy
ApplyDynamic(intent_name, entities, now) ==
    IF intent_name = "time"
    THEN [out |-> DictSet(entities, "time", TimeString(now)), entities |-> entities]
    ELSE [out |-> entities, entities |-> entities]

\* the indices random.choice(intent.responses) may draw (1 stands for no draw)
Choices(catalog, intent_name) ==
    IF KeyIndex(catalog, intent_name) = 0 THEN {1}
    ELSE LET n == Len(catalog[KeyIndex(catalog, intent_name)].responses)
         IN  IF n = 0 THEN {1} ELSE 1..n

\* a variant of render_response that formats the default response of an unknown
\* intent like a template
RenderResponseFormatsDefault(eng, intent_name, entities, choice, now) ==
    LET known == KeyIndex(eng.intents, intent_name) # 0
        template == IF known /\ Len(eng.intents[KeyIndex(eng.intents, intent_name)].responses) > 0
                    THEN eng.intents[KeyIndex(eng.intents, intent_name)].responses[choice]
                    ELSE eng.default_response
        dyn == IF known THEN ApplyDynamic(intent_name, entities, now)
               ELSE [out |-> entities, entities |-> entities]
        res == FormatMap(template, dyn.out)
    IN  [raised |-> res.raised, reply |-> res.out, formatted |-> TRUE,
         template |-> template, enriched |-> dyn.out, entities_after |-> dyn.entities]

\* render_response(intent_name, entities) of the engine eng, with choice the index
\* random.choice draws: what it returns or that it raised, the template chosen, the
\* enriched mapping handed to format_map, and the caller's mapping after the call
RenderResponse(eng, intent_name, entities, choice, now) ==
    IF KeyIndex(eng.intents, intent_name) = 0
    THEN [raised |-> FALSE, reply |-> eng.default_response, formatted |-> FALSE,
          template |-> "", enriched |-> EmptyMap, entities_after |-> entities]
    ELSE LET intent == eng.intents[KeyIndex(eng.intents, intent_name)]
             template == IF Len(intent.responses) > 0 THEN intent.responses[choice]
                         ELSE eng.default_response
             dyn == ApplyDynamic(intent_name, entities, now)
             res == FormatMap(template, dyn.out)
         IN  [raised |-> res.raised, reply |-> res.out, formatted |-> TRUE,
              template |-> template, enriched |-> dyn.out, entities_after |-> dyn.entities]

\* respond(text): predict_intent, then render_response on its entities
Respond(eng, text, choice, now) ==
    LET predicted == CHOOSE p \in {PredictIntent(eng.compiled, text)} : TRUE
    IN  [predicted |-> predicted,
         rendered |-> RenderResponse(eng, predicted.intent_name, predicted.entities, choice, now)]

(***************************************************************************)
(* server.py: the /chat handler.  cookie is request.cookies.get(...) with  *)
(* "" for no cookie; uuid is the value uuid.uuid4().hex yields when drawn. *)
(***************************************************************************)
PleaseType == "Please type something."

\* SESSIONS.setdefault(sid, {})
SetDefault(sessions, sid) ==
    IF sid \in DOMAIN sessions THEN sessions
    ELSE [s \in DOMAIN sessions \cup {sid} |-> IF s = sid THEN EmptyMap ELSE sessions[s]]

\* a variant of the handler that never writes a name back to the session's memory
LearnNothing(memory, entities) == memory

\* memory["name"] = entities["name"] when the message gave a name
Learn(memory, entities) ==
    IF "name" \in DOMAIN entities THEN DictSet(memory, "name", entities["name"]) ELSE memory

\* merged = {**memory, **entities}
Merged(memory, entities) == DictMerge(memory, entities)

\* a variant of the blank check without strip()
IsBlankEmptyOnly(message) == message = ""

\* not req.message.strip()
IsBlank(message) == Strip(message) = ""

\* chat(req, request, response): the reply (or that rendering raised), the session
\* store after the request, the session id used and the mapping rendered with
Chat(eng, sessions, cookie, message, uuid, choice, now) ==
    IF IsBlank(message)
    THEN [blank |-> TRUE, raised |-> FALSE, reply |-> PleaseType, SESSIONS |-> sessions,
          sid |-> cookie, set_cookie |-> FALSE, intent_name |-> "",
          entities |-> EmptyMap, merged |-> EmptyMap]
    ELSE LET sid == IF cookie = "" THEN uuid ELSE cookie
             created == SetDefault(sessions, sid)
             p == PredictIntent(eng.compiled, message)
             memory == Learn(created[sid], p.entities)
             merged == Merged(memory, p.entities)
             r == RenderResponse(eng, p.intent_name, merged, choice, now)
         IN  [blank |-> FALSE, raised |-> r.raised, reply |-> r.reply,
              SESSIONS |-> [created EXCEPT ![sid] = memory],
              sid |-> sid, set_cookie |-> (cookie = ""), intent_name |-> p.intent_name,
              entities |-> p.entities, merged |-> merged]

(***************************************************************************)
(* The inputs of the model.                                                *)
(***************************************************************************)
\* the most fragments a text is made of
MaxTokens == 2
\* the most /chat requests of one run
MaxRequests == 3

\* parsed configuration documents: a typical catalog; one with overlapping
\* patterns, a record without a name, a name declared twice, an intent without
\* responses and a default response that holds a placeholder; one with an empty
\* pattern, templates str.format_map rejects and a "time" intent without responses
ConfigTypical ==
    [intents |-> <<
        [name |-> "greeting", patterns |-> <<"\\bhi\\b", "hello">>,
         responses |-> <<"Hi {name}!">>],
        [name |-> "name_intro", patterns |-> <<"my name is", "\\bim\\b">>,
         responses |-> <<"Nice to meet you, {name}!">>],
        [name |-> "time", patterns |-> <<"\\btime\\b">>,
         responses |-> <<"It is {time}.", "{name}, it is {time}">>],
        [name |-> "fallback", patterns |-> <<>>, responses |-> <<"Sorry?">>] >>,
     default_response |-> "I'm not sure I understand."]

ConfigOverlap ==
    [intents |-> <<
        [name |-> "short", patterns |-> <<"bob">>, responses |-> <<"{name}{x}">>],
        [name |-> "", patterns |-> <<"">>, responses |-> <<"never">>],
        [name |-> "long", patterns |-> <<"i'm al", "hi">>, responses |-> <<"{{name}}">>],
        [name |-> "fallback", patterns |-> <<"x1">>, responses |-> <<>>],
        [name |-> "short", patterns |-> <<"al\\b", "BOB ">>, responses |-> <<"Hi {name}">>] >>,
     default_response |-> "Sorry {name}"]

ConfigBraces ==
    [intents |-> <<
        [name |-> "time", patterns |-> <<"time">>, responses |-> <<>>],
        [name |-> "any", patterns |-> <<"">>, responses |-> <<"{", "Use {} here", "ok}">>] >>,
     default_response |-> "Now {time}"]

Configs == {ConfigTypical, ConfigOverlap, ConfigBraces}

\* fragments of user text and the texts made of at most MaxTokens of them
\* (the first holds a vertical tab, the seventh the characters 0x1c to 0x1f)
Tokens == {"im", "i am ", "my name is Bob ", "my\r\fname\tis ", "I'm al", "AL ", " ",
           "x1", "hi", "time"}

RECURSIVE TextsOfLen(_)
TextsOfLen(n) == IF n = 0 THEN {""} ELSE {a \o b : a \in TextsOfLen(n - 1), b \in Tokens}

Texts == UNION {TextsOfLen(n) : n \in 0..MaxTokens}

\* entity mappings a caller hands to render_response
EntityMaps ==
    { EmptyMap,
      DictSet(EmptyMap, "name", "Bob"),
      DictSet(DictSet(EmptyMap, "name", "Al"), "time", "noon"),
      DictSet(EmptyMap, "x", "y") }

\* values of datetime.now() as <<hour, minute>>; NoTime when the clock is not read
NoTime == <<0, 0>>
AllTimes == (0..23) \X (0..59)
ClockSamples == {<<0, 5>>, <<9, 30>>, <<12, 0>>, <<14, 5>>, <<23, 59>>}

\* messages, cookies and uuids of the /chat requests
Messages == {"", "\r\n", "hi", "im\fbob", "My name is ALICE "}
\* the configuration the server of the model is started with
ServerConfigs == {ConfigTypical}
Uuids == {"u1", "u2"}
Cookies == {""} \cup Uuids

(***************************************************************************)
(* The state: the engine built at startup (server.py: bot), the session    *)
(* store, the /chat requests received so far, the arguments a caller of    *)
(* the engine holds, and the last call with what it was given and what it  *)
(* gave back.                                                              *)
(***************************************************************************)
Engine == [intents |-> intents, default_response |-> default_response, compiled |-> compiled]

NoCall ==
    [op |-> "none", text |-> "", intent_name |-> "", entities |-> EmptyMap,
     choice |-> 1, now |-> NoTime, raised |-> FALSE, reply |-> "", formatted |-> FALSE,
     template |-> "", enriched |-> EmptyMap, entities_after |-> EmptyMap,
     cookie |-> "", sid |-> "", blank |-> FALSE, merged |-> EmptyMap]

NoInput == [kind |-> "none", text |-> "", intent_name |-> "", entities |-> EmptyMap, now |-> NoTime]

\* the intent names a caller may ask render_response for
IntentNames(catalog) == {catalog[i].name : i \in 1..Len(catalog)} \cup {"fallback", "time", "nope"}

\* what a caller of the engine holds: a text, or an intent name and entities
Inputs(catalog) ==
    {[NoInput EXCEPT !.kind = "text", !.text = t] : t \in Texts}
    \cup {[NoInput EXCEPT !.kind = "render", !.intent_name = n, !.entities = e] :
            n \in IntentNames(catalog), e \in EntityMaps}

\* server.py: bot = build_from_yaml(...), SESSIONS = {}
Startup(configs) ==
    /\ \E raw \in configs :
         LET eng == BuildFromYaml(raw)
         IN  /\ intents = eng.intents
             /\ default_response = eng.default_response
             /\ compiled = eng.compiled
    /\ SESSIONS = EmptyMap
    /\ requests = <<>>
    /\ last = NoCall

\* the engine built, and a caller with its arguments
Init == Startup(Configs) /\ input \in Inputs(intents)

\* the server started
InitServer == Startup(ServerConfigs) /\ input = NoInput

\* a caller of render_response for the intent that reads the clock, at any time of
\* the day
InitClock ==
    /\ Startup(Configs)
    /\ input \in {[i EXCEPT !.now = now] :
                    i \in {j \in Inputs(intents) : j.kind = "render" /\ j.intent_name = "time"},
                    now \in AllTimes}

\* the clock values an intent's rendering reads
TimesFor(intent_name, times) ==
    IF intent_name = "time" /\ KeyIndex(intents, intent_name) # 0 THEN times ELSE {NoTime}

\* a caller calls bot.predict_intent(text)
PredictIntentCall ==
    /\ input.kind = "text"
    /\ \E p \in {PredictIntent(compiled, input.text)} :
         last' = [NoCall EXCEPT !.op = "predict_intent", !.text = input.text,
                     !.intent_name = p.intent_name, !.entities = p.entities]
    /\ UNCHANGED <<intents, default_response, compiled, SESSIONS, requests, input>>

RenderWith(times) ==
    /\ input.kind = "render"
    /\ \E choice \in Choices(intents, input.intent_name),
          now \in TimesFor(input.intent_name, times) :
       \E r \in {RenderResponse(Engine, input.intent_name, input.entities, choice, now)} :
         /\ last' = [NoCall EXCEPT !.op = "render_response",
                        !.intent_name = input.intent_name, !.entities = input.entities,
                        !.choice = choice, !.now = now,
                        !.raised = r.raised, !.reply = r.reply,
                        !.formatted = r.formatted, !.template = r.template,
                        !.enriched = r.enriched, !.entities_after = r.entities_after]
         \* the caller's mapping is the object the call was given
         /\ input' = [input EXCEPT !.entities = r.entities_after]
    /\ UNCHANGED <<intents, default_response, compiled, SESSIONS, requests>>

\* a caller calls bot.render_response(intent_name, entities)
RenderResponseCall == RenderWith(ClockSamples)

\* the same call with datetime.now() the caller's time of the day
RenderAtClock == RenderWith({input.now})

\* cli.py: bot.respond(user)
RespondCall ==
    /\ input.kind = "text"
    /\ \E p \in {PredictIntent(compiled, input.text)} :
       \E choice \in Choices(intents, p.intent_name),
          now \in TimesFor(p.intent_name, ClockSamples) :
       \E res \in {Respond(Engine, input.text, choice, now)} :
         last' = [NoCall EXCEPT !.op = "respond", !.text = input.text,
                     !.intent_name = res.predicted.intent_name,
                     !.entities = res.predicted.entities,
                     !.choice = choice, !.now = now,
                     !.raised = res.rendered.raised, !.reply = res.rendered.reply,
                     !.formatted = res.rendered.formatted,
                     !.template = res.rendered.template,
                     !.enriched = res.rendered.enriched,
                     !.entities_after = res.rendered.entities_after]
    /\ UNCHANGED <<intents, default_response, compiled, SESSIONS, requests, input>>

\* server.py: POST /chat
ChatRequest ==
    /\ Len(requests) < MaxRequests
    /\ \E cookie \in Cookies, message \in Messages :
       \E uuid \in (IF cookie = "" /\ ~IsBlank(message) THEN Uuids \ DOMAIN SESSIONS ELSE {""}) :
       \E p \in {PredictIntent(compiled, message)} :
       \E choice \in Choices(intents, p.intent_name),
          now \in TimesFor(p.intent_name, ClockSamples) :
       \E c \in {Chat(Engine, SESSIONS, cookie, message, uuid, choice, now)} :
         /\ SESSIONS' = c.SESSIONS
         /\ requests' = Append(requests, [sid |-> c.sid, message |-> message])
         /\ last' = [NoCall EXCEPT !.op = "chat", !.text = message,
                        !.intent_name = c.intent_name, !.entities = c.entities,
                        !.choice = choice, !.now = now, !.raised = c.raised,
                        !.reply = c.reply, !.cookie = cookie, !.sid = c.sid,
                        !.blank = c.blank, !.merged = c.merged]
    /\ UNCHANGED <<intents, default_response, compiled, input>>

\* the engine used as a library and from the command line
Next == PredictIntentCall \/ RenderResponseCall \/ RespondCall

Spec == Init /\ [][Next]_vars

\* the HTTP server
NextServer == ChatRequest

SpecServer == InitServer /\ [][NextServer]_vars

\* rendering at every time of the day
NextClock == RenderAtClock

SpecClock == InitClock /\ [][NextClock]_vars

(***************************************************************************)
(* The vocabulary of the claims.                                           *)
(***************************************************************************)
\* pattern matches somewhere in text, letters compared without their case
CaseInsensitiveSearch(pattern, text) ==
    PatternSearch([src |-> pattern, ignorecase |-> TRUE], text)

\* the positions, in declaration order, of the intents with a pattern that matches
\* the trimmed text
MatchingIntents(text) ==
    {i \in 1..Len(intents) :
        \E p \in 1..Len(intents[i].patterns) :
            CaseInsensitiveSearch(intents[i].patterns[p], Strip(text))}

Least(S) == CHOOSE i \in S : \A j \in S : i <= j

\* a word with its first letter upper-cased and the others lower-cased
IsCapitalizedWord(w) ==
    /\ Len(w) >= 1
    /\ IsUpper(Ch(w, 1))
    /\ \A k \in 2..Len(w) : IsLower(Ch(w, k))

\* the name-capturing patterns, in list order, that match the text
NameHits(text) ==
    {k \in 1..Len(name_patterns) : NameSearch(name_patterns[k], text) # None}

PredictedLast == last.op \in {"predict_intent", "respond"}

\* C1: if a pattern of some intent matches the trimmed text, predict_intent returns
\* the earliest-declared intent with a matching pattern
C1_FirstMatchWins ==
    (PredictedLast /\ MatchingIntents(last.text) # {})
        => last.intent_name = intents[Least(MatchingIntents(last.text))].name

\* predict_intent returned the first of two intents that both match
C1_Witness ==
    /\ last.op = "predict_intent"
    /\ Cardinality(MatchingIntents(last.text)) >= 2
    /\ last.intent_name = intents[Least(MatchingIntents(last.text))].name
    /\ \E j \in MatchingIntents(last.text) : intents[j].name # last.intent_name

\* C2: when no pattern of any intent matches the trimmed text (the empty text and
\* whitespace included), predict_intent returns "fallback"
C2_FallbackWhenNoMatch ==
    (PredictedLast /\ MatchingIntents(last.text) = {}) => last.intent_name = "fallback"

\* predict_intent fell back on a text of whitespace only
C2_Witness ==
    /\ last.op = "predict_intent"
    /\ last.text # "" /\ Strip(last.text) = ""
    /\ MatchingIntents(last.text) = {}
    /\ last.intent_name = "fallback"

\* C6: the entities of predict_intent hold "name" exactly when a name pattern
\* matches the text; the value is the group of the first pattern, in list order,
\* that matches, as a capitalized word; no other key and no empty value
C6_NameEntity ==
    PredictedLast =>
        /\ DOMAIN last.entities \subseteq {"name"}
        /\ ("name" \in DOMAIN last.entities) <=> (NameHits(last.text) # {})
        /\ NameHits(last.text) # {} =>
             LET g == NameSearch(name_patterns[Least(NameHits(last.text))], last.text)
                 v == last.entities["name"]
             IN  /\ IsCapitalizedWord(v)
                 /\ LowerStr(v) = LowerStr(g)

\* both patterns match, the second one earlier in the text, and the name is the
\* first pattern's, capitalized from lower case
C6_Witness ==
    /\ last.op = "predict_intent"
    /\ last.text = "my name is Bob I'm al"
    /\ NameHits(last.text) = {1, 2}
    /\ last.entities = DictSet(EmptyMap, "name", "Al")

\* C4: for an intent name that is no key of the catalog, render_response returns
\* the default response as configured, without formatting it
C4_UnknownIntentDefault ==
    (last.op = "render_response" /\ KeyIndex(intents, last.intent_name) = 0)
        => (~last.raised /\ ~last.formatted /\ last.reply = default_response)

\* an unknown intent rendered with a name, under a default response that holds a
\* placeholder
C4_Witness ==
    /\ last.op = "render_response"
    /\ KeyIndex(intents, last.intent_name) = 0
    /\ "name" \in DOMAIN last.entities
    /\ default_response = "Sorry {name}"
    /\ last.reply = "Sorry {name}"

\* C5: for every intent of the catalog, every template and every entity mapping,
\* render_response returns a string and does not fail
C5_RenderingNeverFails ==
    (last.op \in {"render_response", "respond"} /\ KeyIndex(intents, last.intent_name) # 0)
        => ~last.raised

\* C8: for an intent of the catalog with no response template, render_response
\* returns the default response, the string it returns for an unknown intent
C8_NoResponsesDefault ==
    (/\ last.op = "render_response"
     /\ KeyIndex(intents, last.intent_name) # 0
     /\ Len(intents[KeyIndex(intents, last.intent_name)].responses) = 0)
        => (~last.raised /\ last.reply = default_response)

\* the clock time as the claim writes it: the hour of the 12-hour clock without a
\* leading zero, ":", the minute in two digits, and AM before noon, PM from noon on
Decimal(n) == IF n < 10 THEN Ch(Digits, n + 1) ELSE Ch(Digits, (n \div 10) + 1) \o Ch(Digits, (n % 10) + 1)

ClockText(now) ==
    LET hour == ((now[1] + 11) % 12) + 1
    IN  Decimal(hour) \o ":" \o (IF now[2] < 10 THEN "0" ELSE "") \o Decimal(now[2])
        \o (IF now[1] <= 11 THEN " AM" ELSE " PM")

BraceFree(s) == \A k \in 1..Len(s) : Ch(s, k) \notin {"{", "}"}

TimeRendered == last.op = "render_response" /\ last.intent_name = "time" /\ last.formatted

\* C7: at every time of the day, render_response for the "time" intent injects
\* "time" as H:MM AM/PM (H in 1..12 without a leading zero) before substitution: a
\* {time} placeholder of the template is replaced by that string
C7_TimeEntity ==
    TimeRendered =>
        /\ "time" \in DOMAIN last.enriched
        /\ last.enriched["time"] = ClockText(last.now)
        /\ \A k \in 1..Len(last.template) :
             (/\ k + 5 <= Len(last.template)
              /\ SubSeq(last.template, k, k + 5) = "{time}"
              /\ BraceFree(SubSeq(last.template, 1, k - 1))
              /\ BraceFree(SubSeq(last.template, k + 6, Len(last.template))))
                => /\ ~last.raised
                   /\ last.reply = SubSeq(last.template, 1, k - 1) \o ClockText(last.now)
                                   \o SubSeq(last.template, k + 6, Len(last.template))

\* five past two in the afternoon, rendered into a template
C7_Witness ==
    /\ TimeRendered
    /\ last.now = <<14, 5>>
    /\ last.template = "It is {time}."
    /\ last.reply = "It is 2:05 PM."

\* what one call may do to the engine and to the mapping the caller passed
FrameOfCall ==
    /\ UNCHANGED <<intents, default_response, compiled>>
    /\ last'.op = "render_response" =>
         /\ input'.entities = input.entities
         /\ last'.entities = input.entities
         /\ last'.entities_after = input.entities
         /\ last'.formatted =>
              \A k \in DOMAIN input.entities \ {"time"} :
                  k \in DOMAIN last'.enriched /\ last'.enriched[k] = input.entities[k]

\* C9: no call of predict_intent, render_response or respond changes the catalog,
\* the compiled patterns, the default response or the caller's entity mapping; for
\* "time" the value goes into a copy and the entities under other keys reach
\* substitution unchanged
C9_CallsChangeNothing == [][FrameOfCall]_vars

\* the "time" intent rendered for a caller whose mapping holds its own "time" and a
\* name: the mapping is as it was, the copy holds the clock's time
C9_Witness ==
    /\ last.op = "render_response" /\ last.intent_name = "time" /\ last.formatted
    /\ input.entities = DictSet(DictSet(EmptyMap, "name", "Al"), "time", "noon")
    /\ last.enriched["time"] # "noon"
    /\ last.enriched["name"] = "Al"

\* a message of whitespace only (the empty message included)
BlankMessage(m) == \A k \in 1..Len(m) : IsSpace(Ch(m, k))

\* the name a message yields, or None
NameIn(m) == ExtractName(Strip(m))

RECURSIVE LatestName(_, _, _)
\* the name of the latest of the first n requests that carried session id sid, was
\* not blank and yielded a name; None when there is none
LatestName(log, sid, n) ==
    IF n = 0 THEN None
    ELSE IF log[n].sid = sid /\ ~BlankMessage(log[n].message) /\ NameIn(log[n].message) # None
         THEN NameIn(log[n].message)
         ELSE LatestName(log, sid, n - 1)

\* the name a session store remembers for a session, or None
StoredName(store, sid) ==
    IF sid \in DOMAIN store /\ "name" \in DOMAIN store[sid] THEN store[sid]["name"] ELSE None

\* the "name" of an entity mapping, or None
NameOf(entities) == IF "name" \in DOMAIN entities THEN entities["name"] ELSE None

\* C3: the entities a /chat request renders with hold as "name" the name of its own
\* message, else the name of the latest earlier non-blank request of its session
\* that yielded one, else no "name"; a newly extracted name is written back to the
\* session's memory
C3_RememberedName ==
    (last.op = "chat" /\ ~BlankMessage(last.text)) =>
        /\ NameOf(last.merged) = LatestName(requests, last.sid, Len(requests))
        /\ NameIn(last.text) # None => StoredName(SESSIONS, last.sid) = NameIn(last.text)

\* one session: a name, then another name, then a greeting rendered with the latter
C3_Witness ==
    /\ Len(requests) = 3
    /\ requests[1] = [sid |-> "u1", message |-> "im\fbob"]
    /\ requests[2] = [sid |-> "u1", message |-> "My name is ALICE "]
    /\ requests[3] = [sid |-> "u1", message |-> "hi"]
    /\ last.op = "chat" /\ last.entities = EmptyMap
    /\ NameOf(last.merged) = "Alice"
    /\ last.reply = "Hi Alice!"

\* every name the store remembers is a capitalized word
StoredNamesCapitalized(store) ==
    \A s \in DOMAIN store : "name" \in DOMAIN store[s] => IsCapitalizedWord(store[s]["name"])

\* what one /chat request may do to the session store
FrameOfChat ==
    /\ last'.op = "chat"
    /\ BlankMessage(last'.text) => (SESSIONS' = SESSIONS /\ last'.reply = "Please type something.")
    /\ \A s \in DOMAIN SESSIONS \cup DOMAIN SESSIONS' :
         StoredName(SESSIONS', s) # StoredName(SESSIONS, s)
            => (/\ ~BlankMessage(last'.text)
                /\ last'.sid = s
                /\ NameIn(last'.text) # None
                /\ StoredName(SESSIONS', s) = NameIn(last'.text))
    /\ (~BlankMessage(last'.text) /\ NameIn(last'.text) = None)
         => (/\ StoredName(SESSIONS', last'.sid) = StoredName(SESSIONS, last'.sid)
             /\ NameOf(last'.merged) = StoredName(SESSIONS, last'.sid))
    /\ StoredNamesCapitalized(SESSIONS')

\* C10: only a non-blank /chat request of a session whose message yields a name
\* changes that session's remembered name; a blank message is answered "Please type
\* something." and leaves the store as it was; a message without a name leaves the
\* remembered name as it was and renders with the session's own; every stored name
\* is a capitalized word
C10_OnlyNamedRequestsLearn == [][FrameOfChat]_vars

\* two sessions remember different names and a blank request of one of them was
\* answered without a change
C10_Witness ==
    /\ last.op = "chat" /\ last.blank /\ last.text = "\r\n" /\ last.cookie = "u1"
    /\ last.reply = "Please type something."
    /\ StoredName(SESSIONS, "u1") = "Bob"
    /\ StoredName(SESSIONS, "u2") = "Alice"

====
